---- MODULE Spec2Model ----
(***************************************************************************)
(* Model of the d1-worker fetch handler (src/src/index.ts): one HTTP       *)
(* request is received, dispatched through the chain of route tests,       *)
(* validated, turned into one SQL statement for the D1 binding, and        *)
(* answered with one response.  The D1 binding is an external              *)
(* collaborator: what it returns (rows, run() metadata, or a thrown error) *)
(* is chosen nondeterministically.                                         *)
(*                                                                         *)
(* Strings that the code inspects character by character (the path, table  *)
(* names, column names, limit / offset) are sequences of one-character     *)
(* strings; fixed pieces of SQL text are single tokens of such sequences.  *)
(***************************************************************************)
EXTENDS Integers, Sequences, FiniteSets, TLC

VARIABLES
  request,    \* the Request given to fetch
  response,   \* the Response fetch returned, NoResponse before it returns
  dbLog,      \* the statements handed to env.DB while handling the request
  handledBy,  \* the branches of fetch that handled the request
  pc          \* "received" before fetch runs, "responded" after it returned

vars == <<request, response, dbLog, handledBy, pc>>

(***************************************************************************)
(* Bounds of the model.                                                    *)
(***************************************************************************)
MaxNameLen == 2      \* longest table segment of an enumerated path
MaxParamLen == 2     \* longest limit / offset text of an enumerated query string
MaxCols == 2         \* most keys in an enumerated JSON object body
MaxRows == 2         \* most rows the database returns
MaxChanges == 2      \* largest meta.changes the database reports

(***************************************************************************)
(* Character classes and generic string helpers.                           *)
(***************************************************************************)
LowerCase == {"a","b","c","d","e","f","g","h","i","j","k","l","m",
              "n","o","p","q","r","s","t","u","v","w","x","y","z"}
UpperCase == {"A","B","C","D","E","F","G","H","I","J","K","L","M",
              "N","O","P","Q","R","S","T","U","V","W","X","Y","Z"}
Digits == {"0","1","2","3","4","5","6","7","8","9"}

\* All sequences over S of length 0..n.
StringsUpTo(S, n) == UNION {[1..k -> S] : k \in 0..n}

RECURSIVE Join(_, _)
\* Array.prototype.join
Join(parts, sep) ==
  IF parts = <<>> THEN <<>>
  ELSE IF Len(parts) = 1 THEN parts[1]
  ELSE parts[1] \o sep \o Join(Tail(parts), sep)

RECURSIVE SplitFrom(_, _, _)
SplitFrom(s, i, cur) ==
  IF i > Len(s) THEN <<cur>>
  ELSE IF s[i] = "/" THEN <<cur>> \o SplitFrom(s, i + 1, <<>>)
  ELSE SplitFrom(s, i + 1, Append(cur, s[i]))

\* path.split('/'), 1-indexed: Split(p)[k + 1] is path.split('/')[k]
Split(s) == SplitFrom(s, 1, <<>>)

(***************************************************************************)
(* JSON / bind values, all of one record shape.                            *)
(***************************************************************************)
Num(n) == [kind |-> "number", num |-> n, str |-> <<>>, items |-> <<>>]
NaN == [kind |-> "NaN", num |-> 0, str |-> <<>>, items |-> <<>>]
Str(s) == [kind |-> "string", num |-> 0, str |-> s, items |-> <<>>]
Null == [kind |-> "null", num |-> 0, str |-> <<>>, items |-> <<>>]
Undefined == [kind |-> "undefined", num |-> 0, str |-> <<>>, items |-> <<>>]
Arr(xs) == [kind |-> "array", num |-> 0, str |-> <<>>, items |-> xs]

\* JavaScript truthiness of a value
Truthy(v) ==
  CASE v.kind = "undefined" -> FALSE
    [] v.kind = "null" -> FALSE
    [] v.kind = "NaN" -> FALSE
    [] v.kind = "number" -> v.num # 0
    [] v.kind = "string" -> v.str # <<>>
    [] OTHER -> TRUE

\* isValidTableName with the first-character class dropped: /^[a-zA-Z0-9_]+$/
isValidTableName_AnyFirst(tableName) ==
  /\ Len(tableName) >= 1
  /\ \A i \in 1..Len(tableName) :
       tableName[i] \in LowerCase \cup UpperCase \cup Digits \cup {"_"}

(***************************************************************************)
(* isValidTableName: /^[a-zA-Z_][a-zA-Z0-9_]*$/.test(tableName)            *)
(***************************************************************************)
isValidTableName(tableName) ==
  /\ Len(tableName) >= 1
  /\ tableName[1] \in LowerCase \cup UpperCase \cup {"_"}
  /\ \A i \in 2..Len(tableName) :
       tableName[i] \in LowerCase \cup UpperCase \cup Digits \cup {"_"}

(***************************************************************************)
(* parseInt(string) with no radix argument.                                *)
(***************************************************************************)
DigitValue(c) ==
  CASE c = "0" -> 0 [] c = "1" -> 1 [] c = "2" -> 2 [] c = "3" -> 3
    [] c = "4" -> 4 [] c = "5" -> 5 [] c = "6" -> 6 [] c = "7" -> 7
    [] c = "8" -> 8 [] c = "9" -> 9
    [] c \in {"a","A"} -> 10 [] c \in {"b","B"} -> 11 [] c \in {"c","C"} -> 12
    [] c \in {"d","D"} -> 13 [] c \in {"e","E"} -> 14 [] c \in {"f","F"} -> 15
    [] OTHER -> 99

RECURSIVE SkipWhiteSpace(_)
SkipWhiteSpace(s) ==
  IF s # <<>> /\ Head(s) = " " THEN SkipWhiteSpace(Tail(s)) ELSE s

RECURSIVE DigitPrefix(_, _)
\* the longest prefix of s made of digits of the radix
DigitPrefix(s, radix) ==
  IF s # <<>> /\ DigitValue(Head(s)) < radix
  THEN <<Head(s)>> \o DigitPrefix(Tail(s), radix)
  ELSE <<>>

RECURSIVE DigitsToInt(_, _, _)
DigitsToInt(ds, radix, acc) ==
  IF ds = <<>> THEN acc
  ELSE DigitsToInt(Tail(ds), radix, acc * radix + DigitValue(Head(ds)))

parseInt(string) ==
  LET s0 == SkipWhiteSpace(string)
      neg == s0 # <<>> /\ Head(s0) = "-"
      s1 == IF s0 # <<>> /\ Head(s0) \in {"-", "+"} THEN Tail(s0) ELSE s0
      hex == Len(s1) >= 2 /\ s1[1] = "0" /\ s1[2] \in {"x", "X"}
      radix == IF hex THEN 16 ELSE 10
      s2 == IF hex THEN Tail(Tail(s1)) ELSE s1
      ds == DigitPrefix(s2, radix)
  IN IF ds = <<>> THEN NaN
     ELSE Num((IF neg THEN -1 ELSE 1) * DigitsToInt(ds, radix, 0))

(***************************************************************************)
(* Paths.  url.pathname is a sequence of characters starting with "/".     *)
(***************************************************************************)
TABLES == <<"t","a","b","l","e","s">>
QUERY == <<"q","u","e","r","y">>

\* the pathname whose segments are segs
PathOf(segs) == <<"/">> \o Join(segs, <<"/">>)

HasPrefix(s, p) == Len(s) >= Len(p) /\ SubSeq(s, 1, Len(p)) = p

TablesPrefix == <<"/">> \o TABLES \o <<"/">>

\* MatchesTablePath with * for +: /^\/tables\/[^\/]*$/
MatchesTablePath_Star(path) ==
  /\ HasPrefix(path, TablesPrefix)
  /\ \A i \in (Len(TablesPrefix) + 1)..Len(path) : path[i] # "/"

\* path.match(/^\/tables\/[^\/]+$/)
MatchesTablePath(path) ==
  /\ HasPrefix(path, TablesPrefix)
  /\ Len(path) > Len(TablesPrefix)
  /\ \A i \in (Len(TablesPrefix) + 1)..Len(path) : path[i] # "/"

\* path.match(/^\/tables\/[^\/]+\/[^\/]+$/)
MatchesRecordPath(path) ==
  /\ HasPrefix(path, TablesPrefix)
  /\ \E k \in (Len(TablesPrefix) + 2)..(Len(path) - 1) :
       /\ path[k] = "/"
       /\ \A i \in (Len(TablesPrefix) + 1)..Len(path) : i # k => path[i] # "/"

\* The chain of route tests of fetch, in the order the code makes them.
Route(method, path) ==
  IF method = "OPTIONS" THEN "preflight"
  ELSE IF path = PathOf(<<TABLES>>) /\ method = "GET" THEN "listTables"
  ELSE IF MatchesTablePath(path) /\ method = "GET" THEN "listRecords"
  ELSE IF MatchesRecordPath(path) /\ method = "GET" THEN "getRecord"
  ELSE IF MatchesTablePath(path) /\ method = "POST" THEN "createRecord"
  ELSE IF MatchesRecordPath(path) /\ method = "PUT" THEN "updateRecord"
  ELSE IF MatchesRecordPath(path) /\ method = "DELETE" THEN "deleteRecord"
  ELSE IF path = PathOf(<<QUERY>>) /\ method = "POST" THEN "rawQuery"
  ELSE IF path = <<"/">> /\ method = "GET" THEN "apiDocs"
  ELSE "notFound"

(***************************************************************************)
(* Requests the handler can receive.                                       *)
(***************************************************************************)
Methods == {"GET", "POST", "PUT", "DELETE", "OPTIONS", "PATCH"}

NoHeader == "<absent>"
ApiKeys == {NoHeader, "your-api-key-here", "wrong-key"}

NameChars == {"a", "1", "_", "-"}
TableSegs == StringsUpTo(NameChars, MaxNameLen)
IdSegs == {<<>>, <<"7">>, <<"x", "-">>}
HeadSegs == {<<>>, TABLES, QUERY, <<"a">>}

Paths ==
  {PathOf(<<h>>) : h \in HeadSegs}
  \cup {PathOf(<<h, t>>) : h \in HeadSegs \ {<<>>}, t \in TableSegs}
  \cup {PathOf(<<h, t, i>>) : h \in {TABLES, <<"a">>}, t \in TableSegs, i \in IdSegs}
  \cup {PathOf(<<TABLES, t, i, <<"7">>>>) : t \in TableSegs, i \in IdSegs}

\* url.searchParams.get(name): null, or the text of the parameter
NoParam == [present |-> FALSE, value |-> <<>>]
ParamChars == {"0", "7", "x", "-"}
SearchVals ==
  {NoParam} \cup {[present |-> TRUE, value |-> v] : v \in StringsUpTo(ParamChars, MaxParamLen)}

\* Request bodies: none at all, JSON null, or a JSON object (ordered entries).
QUERYKEY == <<"q","u","e","r","y">>
PARAMSKEY == <<"p","a","r","a","m","s">>
NAMEKEY == <<"n","a","m","e">>
ODDKEY == <<"a", ")", ";", "-", "-">>
SelectOne == <<"SELECT 1 as x">>

BodyEntries ==
  {[key |-> QUERYKEY, val |-> v] : v \in {Str(<<>>), Str(SelectOne)}}
  \cup {[key |-> PARAMSKEY, val |-> v] : v \in {Arr(<<>>), Arr(<<Str(<<"%">>), Num(1)>>)}}
  \cup {[key |-> k, val |-> v] : k \in {NAMEKEY, ODDKEY}, v \in {Str(<<"A">>), Num(1), Null}}

NoBody == [kind |-> "none", entries |-> <<>>]
NullBody == [kind |-> "null", entries |-> <<>>]
ObjectBodies ==
  {[kind |-> "object", entries |-> es] :
     es \in {e \in StringsUpTo(BodyEntries, MaxCols) :
               \A i, j \in 1..Len(e) : i # j => e[i].key # e[j].key}}
Bodies == {NoBody, NullBody} \cup ObjectBodies

BodyPaths ==
  {PathOf(<<TABLES, <<"a">>>>), PathOf(<<TABLES, <<"a">>, <<"7">>>>),
   PathOf(<<TABLES, <<"-">>>>), PathOf(<<TABLES, <<"1">>, <<"7">>>>),
   PathOf(<<QUERY>>)}

SearchPaths == {PathOf(<<TABLES, <<"a">>>>), PathOf(<<TABLES, <<"1">>>>)}

Requests ==
  [method : Methods, path : Paths, apiKey : ApiKeys,
   limit : {NoParam}, offset : {NoParam}, body : {NoBody}]
  \cup [method : {"GET"}, path : SearchPaths, apiKey : {"your-api-key-here"},
        limit : SearchVals, offset : SearchVals, body : {NoBody}]
  \cup [method : {"POST", "PUT"}, path : BodyPaths, apiKey : {NoHeader, "your-api-key-here"},
        limit : {NoParam}, offset : {NoParam}, body : Bodies]

(***************************************************************************)
(* What the D1 binding can answer to one statement.                        *)
(***************************************************************************)
ErrorMessages == {"", "D1_ERROR: no such table: a"}
RowSets == {[i \in 1..k |-> i] : k \in 0..MaxRows}

Thrown(m) == [throws |-> TRUE, message |-> m, rows |-> <<>>,
              success |-> FALSE, lastRowId |-> 0, changes |-> 0]
Returned(rows) == [throws |-> FALSE, message |-> "", rows |-> rows,
                   success |-> TRUE, lastRowId |-> 0, changes |-> 0]
Ran(ok, id, n) == [throws |-> FALSE, message |-> "", rows |-> <<>>,
                   success |-> ok, lastRowId |-> id, changes |-> n]

\* stmt.all() and stmt.first()
SelectOutcomes == {Thrown(m) : m \in ErrorMessages} \cup {Returned(r) : r \in RowSets}
\* stmt.run()
RunOutcomes ==
  {Thrown(m) : m \in ErrorMessages}
  \cup {Ran(ok, id, n) : ok \in BOOLEAN, id \in {0, 41}, n \in 0..MaxChanges}

(***************************************************************************)
(* Responses.                                                              *)
(***************************************************************************)
NoData == [kind |-> "none", rows |-> <<>>, lastRowId |-> 0, changes |-> 0]
RowsData(rows) == [kind |-> "rows", rows |-> rows, lastRowId |-> 0, changes |-> 0]
RowData(row) == [kind |-> "row", rows |-> <<row>>, lastRowId |-> 0, changes |-> 0]
InsertData(id, n) == [kind |-> "insert", rows |-> <<>>, lastRowId |-> id, changes |-> n]
ChangesData(n) == [kind |-> "changes", rows |-> <<>>, lastRowId |-> 0, changes |-> n]

\* the JsonResponse object as JSON.stringify writes it
EmptyBody == [success |-> FALSE, hasError |-> FALSE, error |-> "",
              hasData |-> FALSE, data |-> NoData, hasMeta |-> FALSE]
ErrorEnvelope(message) == [EmptyBody EXCEPT !.hasError = TRUE, !.error = message]
DataEnvelope(ok, data, meta) ==
  [EmptyBody EXCEPT !.success = ok, !.hasData = TRUE, !.data = data, !.hasMeta = meta]

jsonResponse(data, status) ==
  [status |-> status, contentType |-> "application/json", body |-> data]

NoResponse == [status |-> 0, contentType |-> "none", body |-> EmptyBody]
PreflightResponse == [status |-> 200, contentType |-> "none", body |-> EmptyBody]
DocsResponse == [status |-> 200, contentType |-> "text/html", body |-> EmptyBody]

\* the catch clause of fetch
Caught(message) ==
  jsonResponse(ErrorEnvelope(IF message # "" THEN message ELSE "Internal server error"), 500)

JsonSyntaxError == "Unexpected end of JSON input"
NullReadError == "Cannot read properties of null (reading 'query')"

(***************************************************************************)
(* Statement builder.  A gateway call records the SQL text handed to       *)
(* env.DB.prepare, the values handed to bind, the method that runs it, and *)
(* (as history) the caller-supplied strings the text was assembled from.   *)
(***************************************************************************)
Call(sql, params, exec, interpolated) ==
  [sql |-> sql, params |-> params, exec |-> exec, interpolated |-> interpolated]

\* a statement that was run, with what the binding answered
Executed(call, result) == [call |-> call, result |-> result]

ListTablesSql ==
  <<"SELECT name FROM sqlite_master WHERE type='table' AND name NOT LIKE 'sqlite_%' AND name NOT LIKE '_cf_%'">>

\* url.searchParams.get(name) || fallback
OrDefault(param, fallback) ==
  IF param.present /\ param.value # <<>> THEN param.value ELSE fallback

ListRecordsCall(tableName, limitParam, offsetParam) ==
  LET limit == OrDefault(limitParam, <<"1", "0", "0">>)
      offset == OrDefault(offsetParam, <<"0">>)
  IN Call(<<"SELECT * FROM ">> \o tableName \o <<" LIMIT ? OFFSET ?">>,
          <<parseInt(limit), parseInt(offset)>>, "all", <<tableName>>)

GetRecordCall(tableName, id) ==
  Call(<<"SELECT * FROM ">> \o tableName \o <<" WHERE id = ?">>,
       <<Str(id)>>, "first", <<tableName>>)

\* Object.keys(body), Object.values(body)
ObjectKeys(body) == [i \in 1..Len(body.entries) |-> body.entries[i].key]
ObjectValues(body) == [i \in 1..Len(body.entries) |-> body.entries[i].val]

\* body[key]
Property(body, key) ==
  IF \E i \in 1..Len(body.entries) : body.entries[i].key = key
  THEN body.entries[CHOOSE i \in 1..Len(body.entries) : body.entries[i].key = key].val
  ELSE Undefined

CreateCall(tableName, body) ==
  LET columns == ObjectKeys(body)
      values == ObjectValues(body)
      placeholders == Join([i \in 1..Len(columns) |-> <<"?">>], <<", ">>)
  IN Call(<<"INSERT INTO ">> \o tableName \o <<" (">> \o Join(columns, <<", ">>)
            \o <<") VALUES (">> \o placeholders \o <<")">>,
          values, "run", <<tableName>> \o columns)

UpdateCall(tableName, id, body) ==
  LET columns == ObjectKeys(body)
      values == ObjectValues(body)
      setClause == Join([i \in 1..Len(columns) |-> columns[i] \o <<" = ?">>], <<", ">>)
  IN Call(<<"UPDATE ">> \o tableName \o <<" SET ">> \o setClause \o <<" WHERE id = ?">>,
          Append(values, Str(id)), "run", <<tableName>> \o columns)

DeleteCall(tableName, id) ==
  Call(<<"DELETE FROM ">> \o tableName \o <<" WHERE id = ?">>,
       <<Str(id)>>, "run", <<tableName>>)

RawQueryCall(body) ==
  LET params == Property(body, PARAMSKEY)
  IN Call(Property(body, QUERYKEY).str,
          IF Truthy(params) /\ Len(params.items) > 0 THEN params.items ELSE <<>>,
          "all", <<>>)

\* !body || Object.keys(body).length === 0
BodyMissing(body) == body.kind = "null" \/ Len(ObjectKeys(body)) = 0

\* NoChanges reading the wrong field of meta: result.meta.last_row_id === 0
NoChanges_LastRowId(result) == result.lastRowId = 0

\* result.meta.changes === 0
NoChanges(result) == result.changes = 0

\* !result, for the result of stmt.first()
NoRow(result) == result.rows = <<>>

(***************************************************************************)
(* The handler.  One action per branch of fetch; each is the whole branch, *)
(* from the route test to the response, with the statement's outcome drawn *)
(* from what the binding can answer.                                       *)
(***************************************************************************)
Init ==
  /\ request \in Requests
  /\ response = NoResponse
  /\ dbLog = <<>>
  /\ handledBy = <<>>
  /\ pc = "received"

\* One branch of fetch returns: its name is appended to handledBy, the record
\* of the branches that handled the request.
Respond(branch, r, calls) ==
  /\ response' = r
  /\ dbLog' = calls
  /\ handledBy' = Append(handledBy, branch)
  /\ pc' = "responded"
  /\ UNCHANGED request

Handling(route) == pc = "received" /\ Route(request.method, request.path) = route

InvalidTableName == jsonResponse(ErrorEnvelope("Invalid table name"), 400)
RecordNotFound == jsonResponse(ErrorEnvelope("Record not found"), 404)
BodyRequired == jsonResponse(ErrorEnvelope("Request body is required"), 400)

Preflight ==
  /\ Handling("preflight")
  /\ Respond("preflight", PreflightResponse, <<>>)

ListTables ==
  /\ Handling("listTables")
  /\ \E result \in SelectOutcomes :
       LET call == Call(ListTablesSql, <<>>, "all", <<>>)
       IN IF result.throws THEN Respond("listTables", Caught(result.message), <<Executed(call, result)>>)
          ELSE Respond("listTables", jsonResponse(DataEnvelope(TRUE, RowsData(result.rows), FALSE), 200),
                       <<Executed(call, result)>>)

ListRecords ==
  /\ Handling("listRecords")
  /\ LET tableName == Split(request.path)[3]
     IN IF ~isValidTableName(tableName) THEN Respond("listRecords", InvalidTableName, <<>>)
        ELSE \E result \in SelectOutcomes :
               LET call == ListRecordsCall(tableName, request.limit, request.offset)
               IN IF result.throws THEN Respond("listRecords", Caught(result.message), <<Executed(call, result)>>)
                  ELSE Respond("listRecords", jsonResponse(DataEnvelope(TRUE, RowsData(result.rows), TRUE), 200),
                               <<Executed(call, result)>>)

GetRecord ==
  /\ Handling("getRecord")
  /\ LET parts == Split(request.path)
         tableName == parts[3]
         id == parts[4]
     IN IF ~isValidTableName(tableName) THEN Respond("getRecord", InvalidTableName, <<>>)
        ELSE \E result \in SelectOutcomes :
               LET call == GetRecordCall(tableName, id)
               IN IF result.throws THEN Respond("getRecord", Caught(result.message), <<Executed(call, result)>>)
                  ELSE IF NoRow(result) THEN Respond("getRecord", RecordNotFound, <<Executed(call, result)>>)
                  ELSE Respond("getRecord", jsonResponse(DataEnvelope(TRUE, RowData(result.rows[1]), FALSE), 200),
                               <<Executed(call, result)>>)

CreateRecord ==
  /\ Handling("createRecord")
  /\ LET tableName == Split(request.path)[3]
         body == request.body
     IN IF ~isValidTableName(tableName) THEN Respond("createRecord", InvalidTableName, <<>>)
        ELSE IF body.kind = "none" THEN Respond("createRecord", Caught(JsonSyntaxError), <<>>)
        ELSE IF BodyMissing(body) THEN Respond("createRecord", BodyRequired, <<>>)
        ELSE \E result \in RunOutcomes :
               LET call == CreateCall(tableName, body)
               IN IF result.throws THEN Respond("createRecord", Caught(result.message), <<Executed(call, result)>>)
                  ELSE Respond("createRecord", jsonResponse(DataEnvelope(result.success,
                                    InsertData(result.lastRowId, result.changes), FALSE), 201),
                               <<Executed(call, result)>>)

UpdateRecord ==
  /\ Handling("updateRecord")
  /\ LET parts == Split(request.path)
         tableName == parts[3]
         id == parts[4]
         body == request.body
     IN IF ~isValidTableName(tableName) THEN Respond("updateRecord", InvalidTableName, <<>>)
        ELSE IF body.kind = "none" THEN Respond("updateRecord", Caught(JsonSyntaxError), <<>>)
        ELSE IF BodyMissing(body) THEN Respond("updateRecord", BodyRequired, <<>>)
        ELSE \E result \in RunOutcomes :
               LET call == UpdateCall(tableName, id, body)
               IN IF result.throws THEN Respond("updateRecord", Caught(result.message), <<Executed(call, result)>>)
                  ELSE IF NoChanges(result) THEN Respond("updateRecord", RecordNotFound, <<Executed(call, result)>>)
                  ELSE Respond("updateRecord", jsonResponse(DataEnvelope(result.success,
                                    ChangesData(result.changes), FALSE), 200),
                               <<Executed(call, result)>>)

DeleteRecord ==
  /\ Handling("deleteRecord")
  /\ LET parts == Split(request.path)
         tableName == parts[3]
         id == parts[4]
     IN IF ~isValidTableName(tableName) THEN Respond("deleteRecord", InvalidTableName, <<>>)
        ELSE \E result \in RunOutcomes :
               LET call == DeleteCall(tableName, id)
               IN IF result.throws THEN Respond("deleteRecord", Caught(result.message), <<Executed(call, result)>>)
                  ELSE IF NoChanges(result) THEN Respond("deleteRecord", RecordNotFound, <<Executed(call, result)>>)
                  ELSE Respond("deleteRecord", jsonResponse(DataEnvelope(result.success,
                                    ChangesData(result.changes), FALSE), 200),
                               <<Executed(call, result)>>)

RawQuery ==
  /\ Handling("rawQuery")
  /\ LET body == request.body
     IN IF body.kind = "none" THEN Respond("rawQuery", Caught(JsonSyntaxError), <<>>)
        ELSE IF body.kind = "null" THEN Respond("rawQuery", Caught(NullReadError), <<>>)
        ELSE IF ~Truthy(Property(body, QUERYKEY))
          THEN Respond("rawQuery", jsonResponse(ErrorEnvelope("Query is required"), 400), <<>>)
        ELSE \E result \in SelectOutcomes :
               LET call == RawQueryCall(body)
               IN IF result.throws THEN Respond("rawQuery", Caught(result.message), <<Executed(call, result)>>)
                  ELSE Respond("rawQuery", jsonResponse(DataEnvelope(TRUE, RowsData(result.rows), TRUE), 200),
                               <<Executed(call, result)>>)

ApiDocs ==
  /\ Handling("apiDocs")
  /\ Respond("apiDocs", DocsResponse, <<>>)

RouteNotFound ==
  /\ Handling("notFound")
  /\ Respond("notFound", jsonResponse(ErrorEnvelope("Route not found"), 404), <<>>)

Next ==
  \/ Preflight
  \/ ListTables
  \/ ListRecords
  \/ GetRecord
  \/ CreateRecord
  \/ UpdateRecord
  \/ DeleteRecord
  \/ RawQuery
  \/ ApiDocs
  \/ RouteNotFound

Spec == Init /\ [][Next]_vars

(***************************************************************************)
(* Vocabulary of the properties, stated on the request and the response    *)
(* without the handler's own operators.                                    *)
(***************************************************************************)
Responded == pc = "responded"
IsJson == response.contentType = "application/json"

\* the segments of the pathname: "/tables/a" has the segments tables, a
Segments(path) == Tail(Split(path))

\* the identifier grammar ^[A-Za-z_][A-Za-z0-9_]*$
IsLetter(c) == c \in LowerCase \/ c \in UpperCase
IdentifierGrammar(name) ==
  /\ name # <<>>
  /\ ~(Head(name) \in Digits)
  /\ \A i \in DOMAIN name : IsLetter(name[i]) \/ name[i] \in Digits \/ name[i] = "_"

\* the request addresses GET/POST /tables/{table} or GET/PUT/DELETE /tables/{table}/{id}
TableScoped ==
  LET segs == Segments(request.path)
  IN /\ Len(segs) >= 2
     /\ segs[1] = TABLES
     /\ \/ Len(segs) = 2 /\ request.method \in {"GET", "POST"}
        \/ Len(segs) = 3 /\ request.method \in {"GET", "PUT", "DELETE"}
TableParam == Segments(request.path)[2]
\* every path parameter of the addressed route is a non-empty segment
ParamsPresent == \A i \in 2..Len(Segments(request.path)) : Segments(request.path)[i] # <<>>

ErrorResponse(status, message) ==
  /\ response.status = status
  /\ IsJson
  /\ response.body = [success |-> FALSE, hasError |-> TRUE, error |-> message,
                      hasData |-> FALSE, data |-> NoData, hasMeta |-> FALSE]

\* the one statement of the request did not throw
Answered == Len(dbLog) = 1 /\ ~dbLog[1].result.throws

(***************************************************************************)
(* C1: a request to /tables or below (or to /query) without the configured *)
(* X-API-Key is answered 401 with the Unauthorized envelope, whatever its  *)
(* method, the OPTIONS preflight excepted; only GET / needs no credential. *)
(***************************************************************************)
ConfiguredApiKey == "your-api-key-here"
C1_UnauthorizedWithoutKey ==
  (/\ Responded
   /\ request.apiKey # ConfiguredApiKey
   /\ request.method # "OPTIONS"
   /\ Segments(request.path)[1] \in {TABLES, QUERY})
  => ErrorResponse(401, "Unauthorized: Invalid or missing API key")

(***************************************************************************)
(* C2 as stated: on every table-scoped route a table name that is empty,   *)
(* starts with a digit or has a character outside [A-Za-z0-9_] is answered *)
(* 400 "Invalid table name" with no gateway call, and a name of the        *)
(* identifier grammar is never answered "Invalid table name".              *)
(***************************************************************************)
C2_InvalidNameRejected ==
  (Responded /\ TableScoped) =>
    IF IdentifierGrammar(TableParam)
    THEN ~(IsJson /\ response.body.error = "Invalid table name")
    ELSE ErrorResponse(400, "Invalid table name") /\ dbLog = <<>>

(***************************************************************************)
(* C2 amended: on every table-scoped route whose path parameters are all   *)
(* non-empty, a table name that starts with a digit or has a character     *)
(* outside [A-Za-z0-9_] is answered 400 "Invalid table name" with no       *)
(* gateway call; a request whose table or id segment is empty matches no   *)
(* route and is answered 404 "Route not found", also with no gateway call; *)
(* a name of the identifier grammar is never answered "Invalid table name".*)
(***************************************************************************)
C2_NonEmptyInvalidNameRejected ==
  (Responded /\ TableScoped) =>
    IF ~ParamsPresent
    THEN ErrorResponse(404, "Route not found") /\ dbLog = <<>>
    ELSE IF IdentifierGrammar(TableParam)
    THEN ~(IsJson /\ response.body.error = "Invalid table name")
    ELSE ErrorResponse(400, "Invalid table name") /\ dbLog = <<>>

C2_Witness ==
  /\ Responded /\ TableScoped /\ ParamsPresent
  /\ request.method = "DELETE"
  /\ Head(TableParam) \in Digits
  /\ response.status = 400
  /\ dbLog = <<>>

(***************************************************************************)
(* C3: in every SQL text built for the table routes, every caller-supplied *)
(* string inside the text (the table name and the column names taken from  *)
(* the body's keys) is an identifier of the grammar.                       *)
(***************************************************************************)
C3_OnlyValidatedIdentifiersInSql ==
  (Responded /\ TableScoped) =>
    \A i \in DOMAIN dbLog :
      \A j \in DOMAIN dbLog[i].call.interpolated :
        IdentifierGrammar(dbLog[i].call.interpolated[j])

(***************************************************************************)
(* C4: every JSON response satisfies the envelope invariant: success=false *)
(* implies error present and data absent; success=true implies error       *)
(* absent.                                                                 *)
(***************************************************************************)
C4_EnvelopeInvariant ==
  (Responded /\ IsJson) =>
    /\ ~response.body.success => (response.body.hasError /\ ~response.body.hasData)
    /\ response.body.success => ~response.body.hasError

(***************************************************************************)
(* C5: create and update with a valid table name and an empty or missing   *)
(* body (no body at all, JSON null, or an object without keys) are         *)
(* answered 400 "Request body is required" with no gateway call.           *)
(***************************************************************************)
C5_EmptyBodyRejected ==
  (/\ Responded /\ TableScoped /\ ParamsPresent
   /\ request.method \in {"POST", "PUT"}
   /\ IdentifierGrammar(TableParam)
   /\ request.body.entries = <<>>)
  => ErrorResponse(400, "Request body is required") /\ dbLog = <<>>

IsIntegerText(s) ==
  LET ds == IF s # <<>> /\ Head(s) \in {"-", "+"} THEN Tail(s) ELSE s
  IN ds # <<>> /\ \A i \in DOMAIN ds : ds[i] \in Digits

Defaulted(param, bound, default) ==
  (~param.present \/ ~IsIntegerText(param.value)) => bound = Num(default)

C7_LimitOffsetAreIntegers ==
  (Responded /\ handledBy = <<"listRecords">> /\ dbLog # <<>>) =>
    LET bound == dbLog[1].call.params
    IN /\ Len(bound) = 2
       /\ bound[1].kind = "number" /\ bound[2].kind = "number"
       /\ Defaulted(request.limit, bound[1], 100)
       /\ Defaulted(request.offset, bound[2], 0)
       /\ (request.limit.present /\ request.limit.value = <<"0">>) => bound[1] = Num(0)

(***************************************************************************)
(* C8: POST /query with a JSON body calls the gateway exactly when the     *)
(* body supplies a non-empty query text; a body without one is answered    *)
(* 400 with no gateway call; otherwise the supplied text is prepared with  *)
(* the supplied parameters in order and the rows come back as              *)
(* {success:true, data: rows}.                                             *)
(***************************************************************************)
SuppliedQuery ==
  {request.body.entries[i].val.str :
     i \in {j \in DOMAIN request.body.entries : request.body.entries[j].key = QUERYKEY}}
SuppliedParams ==
  {request.body.entries[i].val.items :
     i \in {j \in DOMAIN request.body.entries : request.body.entries[j].key = PARAMSKEY}}

C8_RawQueryGate ==
  (/\ Responded
   /\ request.method = "POST" /\ Segments(request.path) = <<QUERY>>
   /\ request.body.kind # "none") =>
    IF SuppliedQuery \subseteq {<<>>}
    THEN response.status = 400 /\ IsJson /\ ~response.body.success /\ dbLog = <<>>
    ELSE /\ Len(dbLog) = 1
         /\ {dbLog[1].call.sql} = SuppliedQuery
         /\ {dbLog[1].call.params} \subseteq SuppliedParams \cup {<<>>}
         /\ SuppliedParams \subseteq {dbLog[1].call.params}
         /\ ~dbLog[1].result.throws =>
              /\ response.status = 200
              /\ response.body.success
              /\ response.body.hasData
              /\ response.body.data.rows = dbLog[1].result.rows

(***************************************************************************)
(* C9: a statement that fails is answered 500 with exactly the engine's    *)
(* message as the error, and a 500 is answered only when a statement       *)
(* failed.                                                                 *)
(***************************************************************************)
C9_ServerErrorIffStatementFailed ==
  Responded =>
    /\ (dbLog # <<>> /\ dbLog[1].result.throws)
         => ErrorResponse(500, dbLog[1].result.message)
    /\ response.status = 500 => (dbLog # <<>> /\ dbLog[1].result.throws)

(***************************************************************************)
(* C10: a request other than OPTIONS is handled by the first row of the    *)
(* route table that matches its method and its segments, by no other       *)
(* branch, and a request that matches no row is answered 404 "Route not    *)
(* found" with no gateway call.                                            *)
(***************************************************************************)
Lit(text) == [param |-> FALSE, text |-> text]
Param == [param |-> TRUE, text |-> <<>>]
Row(method, pattern, handler) == [method |-> method, pattern |-> pattern, handler |-> handler]

RouteTable ==
  << Row("GET", <<Lit(<<>>)>>, "apiDocs"),
     Row("GET", <<Lit(TABLES)>>, "listTables"),
     Row("GET", <<Lit(TABLES), Param>>, "listRecords"),
     Row("GET", <<Lit(TABLES), Param, Param>>, "getRecord"),
     Row("POST", <<Lit(TABLES), Param>>, "createRecord"),
     Row("PUT", <<Lit(TABLES), Param, Param>>, "updateRecord"),
     Row("DELETE", <<Lit(TABLES), Param, Param>>, "deleteRecord"),
     Row("POST", <<Lit(QUERY)>>, "rawQuery") >>

RowMatches(row, method, segs) ==
  /\ row.method = method
  /\ Len(row.pattern) = Len(segs)
  /\ \A i \in DOMAIN segs :
       IF row.pattern[i].param THEN segs[i] # <<>> ELSE segs[i] = row.pattern[i].text

MatchingRows ==
  {r \in DOMAIN RouteTable : RowMatches(RouteTable[r], request.method, Segments(request.path))}

C10_FirstMatchingRowHandles ==
  (Responded /\ request.method # "OPTIONS") =>
    /\ Len(handledBy) = 1
    /\ Cardinality(MatchingRows) <= 1
    /\ MatchingRows # {} =>
         handledBy[1] = RouteTable[CHOOSE r \in MatchingRows : \A q \in MatchingRows : r <= q].handler
    /\ MatchingRows = {} =>
         /\ handledBy[1] = "notFound"
         /\ ErrorResponse(404, "Route not found")
         /\ dbLog = <<>>

C10_Witness ==
  /\ Responded
  /\ request.method = "GET"
  /\ request.path = PathOf(<<TABLES, <<>>>>)
  /\ MatchingRows = {}
  /\ response.status = 404

====
